---- MODULE Spec2Model ----
(***************************************************************************)
(* A model of main.py: the access-log line parser (parse_log_line), the    *)
(* record collector (read_log_file), the column coercion of the row set    *)
(* and the linear script that hands the row set to the MySQL sink and the  *)
(* reporting stage.                                                        *)
(*                                                                         *)
(* Text is modelled as a sequence of one-character strings, so that the    *)
(* regular expression, urlparse, the timestamp layout and the size         *)
(* conversion are computed character by character.                         *)
(***************************************************************************)
EXTENDS Integers, Sequences, FiniteSets, TLC

(***************************************************************************)
(* Characters.  The model's universe of characters is Alphabet; the        *)
(* classes are those of Python's re module restricted to it.               *)
(***************************************************************************)
Digits == {"0", "1", "2", "3", "4", "5", "6", "7", "8", "9"}

UpperLetters ==
    {"A", "B", "C", "D", "E", "F", "G", "H", "I", "J", "K", "L", "M",
     "N", "O", "P", "Q", "R", "S", "T", "U", "V", "W", "X", "Y", "Z"}

LowerLetters ==
    {"a", "b", "c", "d", "e", "f", "g", "h", "i", "j", "k", "l", "m",
     "n", "o", "p", "q", "r", "s", "t", "u", "v", "w", "x", "y", "z"}

Letters == UpperLetters \cup LowerLetters

\* \w
WordChars == Letters \cup Digits \cup {"_"}

\* \s
SpaceChars == {" ", "\t", "\n"}

Punctuation ==
    {"[", "]", "\"", "/", ".", "-", "+", ":", "?", "#", ";", "=", "&", "%", "@"}

Alphabet == WordChars \cup SpaceChars \cup Punctuation

\* [^\]]
NotBracket == Alphabet \ {"]"}

\* [^\s]
NotSpace == Alphabet \ SpaceChars

\* [^\"]
NotQuote == Alphabet \ {"\""}

Last(t) == t[Len(t)]

\* the element of a one-element set.  A value an operator uses more than once
\* is bound by a quantifier over such a set, which evaluates it once.
The(S) == CHOOSE x \in S : TRUE

(***************************************************************************)
(* The regular expression of parse_log_line, run as a backtracking matcher *)
(* runs it: a thread is the sequence of positions at which the groups met  *)
(* so far begin and end, its last element being the position of the next   *)
(* character to read.  Each piece of the pattern maps the set of threads   *)
(* to the set of threads that got past it.                                 *)
(***************************************************************************)

\* the position after the longest run of characters of C that starts at i
RunEnd(s, i, C) ==
    CHOOSE j \in i..(Len(s) + 1) :
        /\ \A k \in i..(j - 1) : s[k] \in C
        /\ (j = Len(s) + 1 \/ s[j] \notin C)

\* a literal piece of the pattern
StepLit(T, s, lit) ==
    { Append(t, Last(t) + Len(lit)) :
        t \in { u \in T : /\ Last(u) + Len(lit) - 1 <= Len(s)
                          /\ SubSeq(s, Last(u), Last(u) + Len(lit) - 1) = lit } }

\* C+ : one or more characters of C (every length the run allows)
StepPlus(T, s, C) ==
    UNION { { Append(t, j) : j \in (Last(t) + 1)..RunEnd(s, Last(t), C) } : t \in T }

\* C{k} : exactly k characters of C
StepCount(T, s, C, k) ==
    { Append(t, Last(t) + k) :
        t \in { u \in T : RunEnd(s, Last(u), C) >= Last(u) + k } }

\* \b : a word character on exactly one side of the position
WordBoundary(s, p) ==
    (p > 1 /\ s[p - 1] \in WordChars) # (p <= Len(s) /\ s[p] \in WordChars)

\* $ (no MULTILINE): the end of the string, or just before a final newline
AtEnd(s, p) ==
    \/ p = Len(s) + 1
    \/ p = Len(s) /\ s[p] = "\n"

Dot == <<".">>
NullToken == <<"N", "U", "L", "L">>
SepAddress == <<" ", "-", " ", "-", " ", "[">>
SepTimestamp == <<"]", " ", "\"">>
Blank == <<" ">>
SepTarget == <<" ", "H", "T", "T", "P", "/">>
SepVersion == <<"\"", " ">>
Dash == <<"-">>

\* (?P<ip>\d+\.\d+\.\d+\.\d+|\bNULL\b), matched from the start of the line
IpThreads(s) ==
    LET start == { <<1>> }
        d1 == StepLit(StepPlus(start, s, Digits), s, Dot)
        d2 == StepLit(StepPlus(d1, s, Digits), s, Dot)
        d3 == StepLit(StepPlus(d2, s, Digits), s, Dot)
        d4 == StepPlus(d3, s, Digits)
        nl == { t \in StepLit({ u \in start : WordBoundary(s, 1) }, s, NullToken) :
                  WordBoundary(s, Last(t)) }
    IN  { <<1, Last(t)>> : t \in d4 \cup nl }

\* (?P<status>\d{3})
StatusWidth == 3

WrongStatusThreads(T, s) == StepPlus(T, s, Digits)

StatusThreads(T, s) == StepCount(T, s, Digits, StatusWidth)

\* (?P<size>\d+|-)
SizeThreads(T, s) == StepPlus(T, s, Digits) \cup StepLit(T, s, Dash)

(***************************************************************************)
(* log_pattern.match(line): the threads that reach the end of the pattern. *)
(* A thread is <<1, ipEnd, tsStart, tsEnd, mStart, mEnd, uStart, uEnd,     *)
(* vStart, vEnd, stStart, stEnd, szStart, szEnd>>.                         *)
(***************************************************************************)
MatchThreads(s) ==
    LET t1 == StepLit(IpThreads(s), s, SepAddress)
        t2 == StepLit(StepPlus(t1, s, NotBracket), s, SepTimestamp)
        t3 == StepLit(StepPlus(t2, s, WordChars), s, Blank)
        t4 == StepLit(StepPlus(t3, s, NotSpace), s, SepTarget)
        t5 == StepLit(StepPlus(t4, s, NotQuote), s, SepVersion)
        t6 == StepLit(StatusThreads(t5, s), s, Blank)
        t7 == SizeThreads(t6, s)
    IN  { t \in t7 : AtEnd(s, Last(t)) }

\* the positions of a thread, compared as a greedy matcher prefers them
Prefers(t, u) ==
    \/ t = u
    \/ \E k \in 1..Len(t) :
          /\ \A m \in 1..(k - 1) : t[m] = u[m]
          /\ t[k] > u[k]

\* the match the matcher returns: greedy pieces take the longest run first
FirstMatch(T) == CHOOSE t \in T : \A u \in T : Prefers(t, u)

\* match.groupdict(), of the match whose thread is t
GroupDict(s, t) ==
    [ ip        |-> SubSeq(s, t[1], t[2] - 1),
      timestamp |-> SubSeq(s, t[3], t[4] - 1),
      method    |-> SubSeq(s, t[5], t[6] - 1),
      url       |-> SubSeq(s, t[7], t[8] - 1),
      status    |-> SubSeq(s, t[11], t[12] - 1),
      size      |-> SubSeq(s, t[13], t[14] - 1) ]

(***************************************************************************)
(* urllib.parse.urlparse, as parse_log_line calls it (default scheme '',   *)
(* fragments allowed).  The request target holds no whitespace (the        *)
(* pattern's [^\s]+) and Alphabet holds no control or non-ASCII character, *)
(* so urlsplit's stripping of those and its NFKC check of the netloc have  *)
(* nothing to act on.  The check of a host written inside a balanced pair  *)
(* of brackets is not modelled: PartValues.url holds no such target.        *)
(***************************************************************************)
UpperSeq ==
    <<"A", "B", "C", "D", "E", "F", "G", "H", "I", "J", "K", "L", "M",
      "N", "O", "P", "Q", "R", "S", "T", "U", "V", "W", "X", "Y", "Z">>

LowerSeq ==
    <<"a", "b", "c", "d", "e", "f", "g", "h", "i", "j", "k", "l", "m",
      "n", "o", "p", "q", "r", "s", "t", "u", "v", "w", "x", "y", "z">>

\* str.lower() of one character
LowerChar(c) ==
    IF c \in UpperLetters
    THEN LowerSeq[CHOOSE k \in 1..Len(UpperSeq) : UpperSeq[k] = c]
    ELSE c

LowerCase(s) == [k \in 1..Len(s) |-> LowerChar(s[k])]

scheme_chars == Letters \cup Digits \cup {"+", "-", "."}

uses_params ==
    { <<>>,
      <<"f", "t", "p">>,
      <<"h", "d", "l">>,
      <<"p", "r", "o", "s", "p", "e", "r", "o">>,
      <<"h", "t", "t", "p">>,
      <<"i", "m", "a", "p">>,
      <<"h", "t", "t", "p", "s">>,
      <<"s", "h", "t", "t", "p">>,
      <<"r", "t", "s", "p">>,
      <<"r", "t", "s", "p", "s">>,
      <<"r", "t", "s", "p", "u">>,
      <<"s", "i", "p">>,
      <<"s", "i", "p", "s">>,
      <<"m", "m", "s">>,
      <<"s", "f", "t", "p">>,
      <<"t", "e", "l">> }

\* str.find(c, start): the first position >= start holding c, 0 when none
Find(s, c, start) ==
    IF \E k \in start..Len(s) : s[k] = c
    THEN CHOOSE k \in start..Len(s) :
            s[k] = c /\ \A m \in start..(k - 1) : s[m] # c
    ELSE 0

\* str.rfind(c): the last position holding c, 0 when none
RFind(s, c) ==
    IF \E k \in 1..Len(s) : s[k] = c
    THEN CHOOSE k \in 1..Len(s) :
            s[k] = c /\ \A m \in (k + 1)..Len(s) : s[m] # c
    ELSE 0

Has(s, c) == \E k \in 1..Len(s) : s[k] = c

From(s, i) == SubSeq(s, i, Len(s))

Min(a, b) == IF a <= b THEN a ELSE b

\* _splitnetloc(url, 2): the position at which the netloc ends
NetlocEnd(u) ==
    LET ends == { Len(u) + 1 } \cup
                { Find(u, c, 3) : c \in { d \in {"/", "?", "#"} : Find(u, d, 3) > 0 } }
    IN  CHOOSE e \in ends : \A f \in ends : e <= f

\* urlsplit: the scheme, when the text before the first ':' is one
SplitScheme(url) ==
    LET i == Find(url, ":", 1)
    IN  IF /\ i > 1
           /\ url[1] \in Letters
           /\ \A k \in 1..(i - 1) : url[k] \in scheme_chars
        THEN [scheme |-> LowerCase(SubSeq(url, 1, i - 1)), rest |-> From(url, i + 1)]
        ELSE [scheme |-> << >>, rest |-> url]

\* urlsplit: the netloc after a leading '//'; a bracket without its pair is
\* ValueError("Invalid IPv6 URL")
SplitNetloc(u) ==
    IF Len(u) >= 2 /\ SubSeq(u, 1, 2) = <<"/", "/">>
    THEN The({ [ netloc |-> n, rest |-> From(u, e), error |-> Has(n, "[") # Has(n, "]") ] :
                 <<e, n>> \in { <<d, SubSeq(u, 3, d - 1)>> : d \in {NetlocEnd(u)} } })
    ELSE [netloc |-> << >>, rest |-> u, error |-> FALSE]

\* urlsplit: the fragment after the first '#', then the query after the first
\* '?' of what is left
SplitFragment(u) ==
    LET h == Find(u, "#", 1)
    IN  IF h > 0
        THEN [rest |-> SubSeq(u, 1, h - 1), fragment |-> From(u, h + 1)]
        ELSE [rest |-> u, fragment |-> << >>]

SplitQuery(u) ==
    LET q == Find(u, "?", 1)
    IN  IF q > 0
        THEN [path |-> SubSeq(u, 1, q - 1), query |-> From(u, q + 1)]
        ELSE [path |-> u, query |-> << >>]

urlsplit(url) ==
    The({ The({ The({ The({ [ error    |-> b.error,
                              scheme   |-> a.scheme,
                              netloc   |-> b.netloc,
                              path     |-> d.path,
                              query    |-> d.query,
                              fragment |-> c.fragment ] :
                            d \in {SplitQuery(c.rest)} }) :
                      c \in {SplitFragment(b.rest)} }) :
                b \in {SplitNetloc(a.rest)} }) :
          a \in {SplitScheme(url)} })

\* _splitparams(url): the position of the ';' that starts the parameters, 0 when none
ParamsAt(path) ==
    IF Has(path, "/") THEN Find(path, ";", RFind(path, "/")) ELSE Find(path, ";", 1)

urlparse(url) ==
    The({ The({ [ error    |-> r.error,
                  scheme   |-> r.scheme,
                  netloc   |-> r.netloc,
                  path     |-> IF i > 0 THEN SubSeq(r.path, 1, i - 1) ELSE r.path,
                  params   |-> IF i > 0 THEN From(r.path, i + 1) ELSE << >>,
                  query    |-> r.query,
                  fragment |-> r.fragment ] :
                i \in { IF r.scheme \in uses_params /\ Has(r.path, ";")
                        THEN ParamsAt(r.path) ELSE 0 } }) :
          r \in {urlsplit(url)} })

(***************************************************************************)
(* parse_log_line(line).  kind is "record" (the dict is returned), "none"  *)
(* (None is returned) or "raise" (urlparse's ValueError leaves the         *)
(* function: nothing in it catches an exception).                          *)
(***************************************************************************)
NoMatch == [kind |-> "none"]

Raised == [kind |-> "raise"]

\* log_dict['query_parameters'] = parsed_url.query is left out
ForgetsQuery(d, parsed) == [d EXCEPT !.url = parsed.path]

\* log_dict['query_parameters'] = parsed_url.query; log_dict['url'] = parsed_url.path
WithUrlParts(d, parsed) ==
    [d EXCEPT !.url = parsed.path] @@ [query_parameters |-> parsed.query]

\* lines 18-22: the dict of a match, the target split by urlparse
ParsedMatch(log_dict) ==
    The({ IF parsed_url.error
          THEN Raised
          ELSE [kind |-> "record"] @@ WithUrlParts(log_dict, parsed_url) :
          parsed_url \in {urlparse(log_dict.url)} })

parse_log_line(line) ==
    The({ The({ IF T = {}
                THEN NoMatch
                ELSE The({ ParsedMatch(log_dict) :
                           log_dict \in {GroupDict(l, FirstMatch(T))} }) :
                T \in {MatchThreads(l)} }) :
          l \in {line} })

(***************************************************************************)
(* pd.to_datetime(..., format='%d/%b/%Y:%H:%M:%S %z'): the layout, piece   *)
(* by piece, as strptime's directives read it (one or two digits for %d,   *)
(* %H, %M and %S, four for %Y, a month abbreviation in any case, a run of  *)
(* whitespace for the blank, a sign and four digits for %z), the whole     *)
(* text consumed and every field within its calendar range.  The optional  *)
(* ':' and seconds of %z and the range of years of a Timestamp are left    *)
(* out.                                                                    *)
(***************************************************************************)
DigitSeq == <<"0", "1", "2", "3", "4", "5", "6", "7", "8", "9">>

DigitValue(c) == (CHOOSE k \in 1..Len(DigitSeq) : DigitSeq[k] = c) - 1

RECURSIVE DigitsValue(_)
\* int() / float() of a run of digits
DigitsValue(s) ==
    The({ IF v = << >>
          THEN 0
          ELSE 10 * DigitsValue(SubSeq(v, 1, Len(v) - 1)) + DigitValue(v[Len(v)]) :
          v \in {s} })

MonthNames ==
    << <<"j", "a", "n">>,
       <<"f", "e", "b">>,
       <<"m", "a", "r">>,
       <<"a", "p", "r">>,
       <<"m", "a", "y">>,
       <<"j", "u", "n">>,
       <<"j", "u", "l">>,
       <<"a", "u", "g">>,
       <<"s", "e", "p">>,
       <<"o", "c", "t">>,
       <<"n", "o", "v">>,
       <<"d", "e", "c">> >>

IsLeap(y) == (y % 4 = 0 /\ y % 100 # 0) \/ y % 400 = 0

DaysIn(m, y) ==
    IF m = 2 THEN (IF IsLeap(y) THEN 29 ELSE 28)
    ELSE IF m \in {4, 6, 9, 11} THEN 30 ELSE 31

\* between lo and hi characters of C
StepBetween(T, s, C, lo, hi) ==
    UNION { { Append(t, j) :
                j \in (Last(t) + lo)..Min(Last(t) + hi, RunEnd(s, Last(t), C)) } : t \in T }

Slash == <<"/">>
Colon == <<":">>

\* the threads of the layout that consume the whole text
LayoutThreads(s) ==
    LET d  == StepLit(StepBetween({ <<1>> }, s, Digits, 1, 2), s, Slash)
        b  == StepLit(StepCount(d, s, Letters, 3), s, Slash)
        y  == StepLit(StepCount(b, s, Digits, 4), s, Colon)
        h  == StepLit(StepBetween(y, s, Digits, 1, 2), s, Colon)
        m  == StepLit(StepBetween(h, s, Digits, 1, 2), s, Colon)
        sc == StepPlus(StepBetween(m, s, Digits, 1, 2), s, SpaceChars)
        z  == StepCount(StepCount(StepCount(sc, s, {"+", "-"}, 1), s, Digits, 2), s, Digits, 2)
    IN  { t \in z : Last(t) = Len(s) + 1 }

\* the fields one thread reads
LayoutFields(s, t) ==
    LET name == LowerCase(SubSeq(s, t[3], t[4] - 1))
        sign == IF s[t[13]] = "-" THEN -1 ELSE 1
        zh == DigitsValue(SubSeq(s, t[14], t[15] - 1))
        zm == DigitsValue(SubSeq(s, t[15], t[16] - 1))
    IN  [ day    |-> DigitsValue(SubSeq(s, 1, t[2] - 1)),
          month  |-> IF \E k \in 1..Len(MonthNames) : MonthNames[k] = name
                     THEN CHOOSE k \in 1..Len(MonthNames) : MonthNames[k] = name
                     ELSE 0,
          year   |-> DigitsValue(SubSeq(s, t[5], t[6] - 1)),
          hour   |-> DigitsValue(SubSeq(s, t[7], t[8] - 1)),
          minute |-> DigitsValue(SubSeq(s, t[9], t[10] - 1)),
          second |-> DigitsValue(SubSeq(s, t[11], t[12] - 1)),
          zmin   |-> zm,
          offset |-> sign * (60 * zh + zm) ]

InRange(f) ==
    /\ f.month >= 1
    /\ f.day >= 1 /\ f.day <= DaysIn(f.month, f.year)
    /\ f.hour <= 23 /\ f.minute <= 59 /\ f.second <= 59
    /\ f.zmin <= 59

\* the moments the text can be read as: none when it violates the layout
Moments(s) == { f \in { LayoutFields(s, t) : t \in LayoutThreads(s) } : InRange(f) }

\* whether to_datetime accepts the text
TimestampOK(s) == Moments(s) # {}

to_datetime(s) == CHOOSE f \in Moments(s) : TRUE

Converted(rows) ==
    [i \in 1..Len(rows) |-> [rows[i] EXCEPT !.timestamp = to_datetime(@)]]

\* the rows whose text violates the layout are dropped and the rest converted
DropsBadTimestamps(rows) ==
    [ ok   |-> TRUE,
      rows |-> Converted(SelectSeq(rows, LAMBDA r : TimestampOK(r.timestamp))) ]

\* pd.to_datetime over the column: one text outside the layout raises
CoerceTimestamps(rows) ==
    IF \E i \in 1..Len(rows) : ~TimestampOK(rows[i].timestamp)
    THEN [ok |-> FALSE, rows |-> << >>]
    ELSE [ok |-> TRUE, rows |-> Converted(rows)]

(***************************************************************************)
(* The size column: .replace('-', np.nan).astype(float), then .fillna(0).  *)
(***************************************************************************)
\* a float of the size column: a number, or the missing value
Float(n) == [nan |-> FALSE, val |-> n]

NaN == [nan |-> TRUE, val |-> 0]

\* df['size'].replace('-', np.nan).astype(float), one value
SizeAsFloat(text) == IF text = Dash THEN NaN ELSE Float(DigitsValue(text))

\* the missing values are left as they are
KeepsNaN(v) == v

\* df['size'].fillna(0), one value
FillNa(v) == IF v.nan THEN Float(0) ELSE v

(***************************************************************************)
(* The input.  A line of nginx_logs.txt is written as its parts, in the    *)
(* order of the grammar; the text the loop reads is LineText of them.      *)
(* PartValues holds, for each part, texts the grammar accepts and texts it *)
(* rejects; Base is a line the grammar accepts.                            *)
(***************************************************************************)
PartValues ==
    [ ip |->
        { <<"1", ".", "2", ".", "3", ".", "4">>,
          <<"N", "U", "L", "L">>,
          <<"1", "0", ".", "0", ".", "0", ".", "1">>,
          <<"1", ".", "2", ".", "3">>,
          <<"N", "U", "L", "L", "x">>,
          <<"-">>,
          <<>> },
      sep1 |->
        { <<" ", "-", " ", "-", " ", "[">>,
          <<" ", "-", " ", "[">>,
          <<" ", "-", " ", "-", " ">>,
          <<"-", " ", "-", " ", "[">> },
      ts |->
        { <<"1", "0", "/", "O", "c", "t", "/", "2", "0", "2", "3", ":", "1", "3", ":", "5", "5", ":", "3", "6", " ", "+", "0", "0", "0", "0">>,
          <<"1", "/", "J", "a", "n", "/", "2", "0", "2", "4", ":", "0", ":", "0", "0", ":", "0", "0", " ", "+", "0", "0", "0", "0">>,
          <<"b", "a", "d">>,
          <<"1", "0", "/", "O", "c", "t", "/", "2", "0", "2", "3", " ", "1", "3", ":", "5", "5", ":", "3", "6">>,
          <<"3", "2", "/", "O", "c", "t", "/", "2", "0", "2", "3", ":", "1", "3", ":", "5", "5", ":", "3", "6", " ", "+", "0", "0", "0", "0">>,
          <<>>,
          <<"a", "]", "b">> },
      sep2 |->
        { <<"]", " ", "\"">>,
          <<"]", "\"">>,
          <<"]", " ">> },
      method |->
        { <<"G", "E", "T">>,
          <<"P", "O", "S", "T">>,
          <<>>,
          <<"G", "-", "T">> },
      sp1 |->
        { <<" ">>,
          <<>>,
          <<" ", " ">> },
      url |->
        { <<"/", "a", "?", "x", "=", "1">>,
          <<"/">>,
          <<"/", "a">>,
          <<"/", "a", "?", "x", "#", "f">>,
          <<"/", "a", "#", "f", "?", "x">>,
          <<"/", "a", ";", "p", "?", "x">>,
          <<"/", "a", ";", "p", "/", "b">>,
          <<"/", "a", "?", "x", "?", "y">>,
          <<"/", "a", "?">>,
          <<"?", "x">>,
          <<"/", "/", "h", "/", "a", "?", "x">>,
          <<"h", "t", "t", "p", ":", "/", "/", "h", "/", "a", "?", "x">>,
          <<"a", ":", "b", "?", "x">>,
          <<"/", "/", "[">>,
          <<"h", "t", "t", "p", ":", "/", "/", "]", "/", "a">>,
          <<>>,
          <<"/", "a", " ", "b">> },
      sep3 |->
        { <<" ", "H", "T", "T", "P", "/">>,
          <<" ", "H", "T", "T", "P">>,
          <<" ", "h", "t", "t", "p", "/">>,
          <<"H", "T", "T", "P", "/">> },
      ver |->
        { <<"1", ".", "1">>,
          <<"2">>,
          <<>> },
      sep4 |->
        { <<"\"", " ">>,
          <<" ">>,
          <<"\"">> },
      status |->
        { <<"2", "0", "0">>,
          <<"4", "0", "4">>,
          <<"2", "0">>,
          <<"2", "0", "0", "0">>,
          <<"2", "x", "0">>,
          <<>> },
      sp2 |->
        { <<" ">>,
          <<>> },
      size |->
        { <<"5", "1", "2">>,
          <<"0">>,
          <<"-">>,
          <<"7">>,
          <<>>,
          <<"-", "-">>,
          <<"5", "x">>,
          <<"-", "5">>,
          <<"1", ".", "5">> },
      term |->
        { <<"\n">>,
          <<>>,
          <<" ">>,
          <<" ", "\n">>,
          <<"x", "\n">>,
          <<"\n", "\n">> } ]

Base ==
    [ ip |-> <<"1", ".", "2", ".", "3", ".", "4">>,
      sep1 |-> <<" ", "-", " ", "-", " ", "[">>,
      ts |-> <<"1", "0", "/", "O", "c", "t", "/", "2", "0", "2", "3", ":", "1", "3", ":", "5", "5", ":", "3", "6", " ", "+", "0", "0", "0", "0">>,
      sep2 |-> <<"]", " ", "\"">>,
      method |-> <<"G", "E", "T">>,
      sp1 |-> <<" ">>,
      url |-> <<"/", "a", "?", "x", "=", "1">>,
      sep3 |-> <<" ", "H", "T", "T", "P", "/">>,
      ver |-> <<"1", ".", "1">>,
      sep4 |-> <<"\"", " ">>,
      status |-> <<"2", "0", "0">>,
      sp2 |-> <<" ">>,
      size |-> <<"5", "1", "2">>,
      term |-> <<"\n">> ]


LineText(p) ==
    p.ip \o p.sep1 \o p.ts \o p.sep2 \o p.method \o p.sp1 \o p.url \o p.sep3
        \o p.ver \o p.sep4 \o p.status \o p.sp2 \o p.size \o p.term

\* a part and a text for it
Choices == UNION { { <<f, v>> : v \in PartValues[f] } : f \in DOMAIN PartValues }

\* the lines that differ from Base in at most two parts
Variants ==
    { [[Base EXCEPT ![c[1]] = c[2]] EXCEPT ![d[1]] = d[2]] : c \in Choices, d \in Choices }

(***************************************************************************)
(* The run.  MaxLines bounds the file, MaxRuns the number of times the     *)
(* script is run over it against the same sink.                            *)
(***************************************************************************)
MaxLines == 2

MaxRuns == 2

\* the lines of the files of the run: accepted (a size, the '-' marker),
\* rejected by the grammar, accepted with a timestamp outside the layout,
\* accepted with a request target urlparse rejects
LogLines ==
    { Base,
      [Base EXCEPT !.ip = <<"N", "U", "L", "L">>, !.size = <<"-">>],
      [Base EXCEPT !.status = <<"2", "0">>],
      [Base EXCEPT !.ts = <<"b", "a", "d">>],
      [Base EXCEPT !.url = <<"/", "/", "[">>] }

Files == UNION { [1..n -> LogLines] : n \in 0..MaxLines }

OneLineFiles == { <<v>> : v \in Variants }

VARIABLES
    file,         \* nginx_logs.txt: the sequence of its lines, each as its parts
    db,           \* the MySQL server: the database, the table, its committed rows
    pc,           \* the statement the script is at
    lineNo,       \* read_log_file: the next line of the for loop
    parsed_log,   \* read_log_file: what parse_log_line returned last
    parsed_logs,  \* read_log_file's list, then the module's parsed_logs
    df,           \* the DataFrame: its columns and its rows
    inserted,     \* the rows the insert loop has executed
    pending,      \* the rows of the connection's open transaction
    output,       \* what the process printed and how it ended
    steps,        \* how many times each statement ran in this run
    runs,         \* the runs started
    completed     \* the runs that committed

vars ==
    << file, db, pc, lineNo, parsed_log, parsed_logs, df, inserted, pending,
       output, steps, runs, completed >>

Statements ==
    { "read_line", "return", "frame", "timestamp", "size", "columns", "fillna",
      "connect", "show_databases", "create_database", "use", "show_tables",
      "create_table", "insert", "commit", "charts", "report", "charts_again" }

SinkStatements ==
    { "connect", "show_databases", "create_database", "use", "show_tables",
      "create_table", "insert", "commit" }

Columns == { "ip", "timestamp", "method", "url", "status", "size", "query_parameters" }

Unset == [kind |-> "unset"]

NoFrame == [columns |-> {}, rows |-> << >>]

Running ==
    [ printed |-> << >>, ended |-> "no", status |-> 0, error |-> "", failed |-> "" ]

\* a row a previous user of the table left in it
OldRow ==
    << NullToken, to_datetime(Base.ts), <<"G", "E", "T">>, <<"/", "o", "l", "d">>,
       <<"2", "0", "0">>, Float(0), << >> >>

Databases ==
    { [exists |-> FALSE, table |-> FALSE, old |-> << >>, rows |-> << >>],
      [exists |-> TRUE, table |-> FALSE, old |-> << >>, rows |-> << >>],
      [exists |-> TRUE, table |-> TRUE, old |-> << >>, rows |-> << >>],
      [exists |-> TRUE, table |-> TRUE, old |-> <<OldRow>>, rows |-> <<OldRow>>] }

Start ==
    /\ pc = "read"
    /\ lineNo = 1
    /\ parsed_log = Unset
    /\ parsed_logs = << >>
    /\ df = NoFrame
    /\ inserted = 0
    /\ pending = << >>
    /\ output = Running
    /\ steps = [s \in Statements |-> 0]

Init ==
    /\ file \in Files
    /\ db \in Databases
    /\ runs = 1
    /\ completed = 0
    /\ Start

\* the pure functions of the parser, applied to one line
InitParse ==
    /\ file \in OneLineFiles
    /\ db = [exists |-> FALSE, table |-> FALSE, old |-> << >>, rows |-> << >>]
    /\ runs = 1
    /\ completed = 0
    /\ Start

Ran(s) == [steps EXCEPT ![s] = @ + 1]

\* an exception nothing catches: the traceback, exit status 1; the server
\* rolls back the transaction of the connection that goes away
Uncaught(error, failed) ==
    /\ pc' = "crashed"
    /\ output' = [output EXCEPT !.ended = "exception", !.status = 1,
                                !.error = error, !.failed = failed]
    /\ pending' = << >>

\* exit() with no status
ExitsZero(message, failed) ==
    /\ pc' = "exited"
    /\ output' = [output EXCEPT !.printed = Append(@, message), !.ended = "exit",
                                !.status = 0, !.failed = failed]
    /\ pending' = << >>

\* print(f"Failed creating ...: {err}"); exit(1)
Exits(message, failed) ==
    /\ pc' = "exited"
    /\ output' = [output EXCEPT !.printed = Append(@, message), !.ended = "exit",
                                !.status = 1, !.failed = failed]
    /\ pending' = << >>

Prints(message) == output' = [output EXCEPT !.printed = Append(@, message)]

(***************************************************************************)
(* read_log_file                                                           *)
(***************************************************************************)
\* if parsed_log: None is false, a dict with keys is true
Truthy(r) == r.kind = "record" /\ DOMAIN r # {"kind"}

\* the dict parse_log_line returned
AsDict(r) == [c \in DOMAIN r \ {"kind"} |-> r[c]]

\* the return statement sits inside the loop
ReturnsEarly == TRUE

\* the for loop has read every line
LoopDone == lineNo > Len(file)

\* lines 29-32: one turn of the for loop
ReadLine ==
    /\ pc = "read"
    /\ lineNo <= Len(file)
    /\ steps' = Ran("read_line")
    /\ \E r \in {parse_log_line(LineText(file[lineNo]))} :
           IF r.kind = "raise"
           THEN /\ Uncaught("ValueError", "")
                /\ UNCHANGED << lineNo, parsed_log, parsed_logs >>
           ELSE /\ parsed_log' = r
                /\ parsed_logs' =
                      IF Truthy(r) THEN Append(parsed_logs, AsDict(r)) ELSE parsed_logs
                /\ lineNo' = lineNo + 1
                /\ UNCHANGED << pc, output, pending >>
    /\ UNCHANGED << file, db, df, inserted, runs, completed >>

\* lines 33 and 37: return parsed_logs
ReturnLogs ==
    /\ pc = "read"
    /\ LoopDone
    /\ pc' = "frame"
    /\ steps' = Ran("return")
    /\ UNCHANGED << file, db, lineNo, parsed_log, parsed_logs, df, inserted, pending,
                    output, runs, completed >>

(***************************************************************************)
(* The coercion of the row set                                             *)
(***************************************************************************)
\* the frame is given the seven columns whatever the list holds
AlwaysColumns(logs) == Columns

\* the columns of pd.DataFrame(list of dicts): the keys met, none for an empty list
FrameColumns(logs) == UNION { DOMAIN logs[i] : i \in 1..Len(logs) }

\* line 39
BuildFrame ==
    /\ pc = "frame"
    /\ df' = [columns |-> FrameColumns(parsed_logs), rows |-> parsed_logs]
    /\ pc' = "timestamp"
    /\ steps' = Ran("frame")
    /\ UNCHANGED << file, db, lineNo, parsed_log, parsed_logs, inserted, pending,
                    output, runs, completed >>

\* line 42
CoerceTimestamp ==
    /\ pc = "timestamp"
    /\ steps' = Ran("timestamp")
    /\ IF "timestamp" \notin df.columns
       THEN Uncaught("KeyError", "") /\ UNCHANGED df
       ELSE \E c \in {CoerceTimestamps(df.rows)} :
                IF c.ok
                THEN /\ df' = [df EXCEPT !.rows = c.rows]
                     /\ pc' = "size"
                     /\ UNCHANGED << output, pending >>
                ELSE Uncaught("ValueError", "") /\ UNCHANGED df
    /\ UNCHANGED << file, db, lineNo, parsed_log, parsed_logs, inserted, runs, completed >>

\* line 45
CoerceSize ==
    /\ pc = "size"
    /\ steps' = Ran("size")
    /\ IF "size" \notin df.columns
       THEN Uncaught("KeyError", "") /\ UNCHANGED df
       ELSE /\ df' = [df EXCEPT !.rows =
                        [i \in 1..Len(@) |-> [@[i] EXCEPT !.size = SizeAsFloat(@)]]]
            /\ pc' = "columns"
            /\ UNCHANGED << output, pending >>
    /\ UNCHANGED << file, db, lineNo, parsed_log, parsed_logs, inserted, runs, completed >>

\* line 48
SelectColumns ==
    /\ pc = "columns"
    /\ steps' = Ran("columns")
    /\ IF ~(Columns \subseteq df.columns)
       THEN Uncaught("KeyError", "") /\ UNCHANGED df
       ELSE /\ df' = [ columns |-> Columns,
                       rows |-> [i \in 1..Len(df.rows) |->
                                   [c \in Columns |-> df.rows[i][c]]] ]
            /\ pc' = "fillna"
            /\ UNCHANGED << output, pending >>
    /\ UNCHANGED << file, db, lineNo, parsed_log, parsed_logs, inserted, runs, completed >>

\* line 51
FillMissing ==
    /\ pc = "fillna"
    /\ steps' = Ran("fillna")
    /\ df' = [df EXCEPT !.rows = [i \in 1..Len(@) |-> [@[i] EXCEPT !.size = FillNa(@)]]]
    /\ pc' = "connect"
    /\ UNCHANGED << file, db, lineNo, parsed_log, parsed_logs, inserted, pending,
                    output, runs, completed >>

(***************************************************************************)
(* The sink.  Every statement sent to the server may fail (ok = FALSE):    *)
(* mysql.connector raises, and only the two CREATE statements sit in a try.*)
(***************************************************************************)
\* lines 59-64
Connect ==
    /\ pc = "connect"
    /\ steps' = Ran("connect")
    /\ \E ok \in BOOLEAN :
          IF ok
          THEN pc' = "show_databases" /\ UNCHANGED << output, pending >>
          ELSE Uncaught("mysql.connector.Error", "connect")
    /\ UNCHANGED << file, db, lineNo, parsed_log, parsed_logs, df, inserted, runs, completed >>

\* lines 68-71
ShowDatabases ==
    /\ pc = "show_databases"
    /\ steps' = Ran("show_databases")
    /\ \E ok \in BOOLEAN :
          IF ~ok
          THEN Uncaught("mysql.connector.Error", "show_databases")
          ELSE IF db.exists
               THEN /\ pc' = "use"
                    /\ Prints("Database already exists.")
                    /\ UNCHANGED pending
               ELSE /\ pc' = "create_database"
                    /\ UNCHANGED << output, pending >>
    /\ UNCHANGED << file, db, lineNo, parsed_log, parsed_logs, df, inserted, runs, completed >>

\* lines 72-77
CreateDatabase ==
    /\ pc = "create_database"
    /\ steps' = Ran("create_database")
    /\ \E ok \in BOOLEAN :
          IF ok
          THEN /\ db' = [db EXCEPT !.exists = TRUE]
               /\ pc' = "use"
               /\ Prints("Database created successfully.")
               /\ UNCHANGED pending
          ELSE /\ Exits("Failed creating database", "create_database")
               /\ UNCHANGED db
    /\ UNCHANGED << file, lineNo, parsed_log, parsed_logs, df, inserted, runs, completed >>

\* line 80
UseDatabase ==
    /\ pc = "use"
    /\ steps' = Ran("use")
    /\ \E ok \in BOOLEAN :
          IF ok /\ db.exists
          THEN pc' = "show_tables" /\ UNCHANGED << output, pending >>
          ELSE Uncaught("mysql.connector.Error", "use")
    /\ UNCHANGED << file, db, lineNo, parsed_log, parsed_logs, df, inserted, runs, completed >>

\* lines 96-99
ShowTables ==
    /\ pc = "show_tables"
    /\ steps' = Ran("show_tables")
    /\ \E ok \in BOOLEAN :
          IF ~ok
          THEN Uncaught("mysql.connector.Error", "show_tables")
          ELSE IF db.table
               THEN /\ pc' = "insert"
                    /\ Prints("Table nginx_logs already exists.")
                    /\ UNCHANGED pending
               ELSE /\ pc' = "create_table"
                    /\ UNCHANGED << output, pending >>
    /\ UNCHANGED << file, db, lineNo, parsed_log, parsed_logs, df, inserted, runs, completed >>

\* lines 100-105
CreateTable ==
    /\ pc = "create_table"
    /\ steps' = Ran("create_table")
    /\ \E ok \in BOOLEAN :
          IF ok
          THEN /\ db' = [db EXCEPT !.table = TRUE]
               /\ pc' = "insert"
               /\ Prints("Table nginx_logs created successfully.")
               /\ UNCHANGED pending
          ELSE /\ Exits("Failed creating table", "create_table")
               /\ UNCHANGED db
    /\ UNCHANGED << file, lineNo, parsed_log, parsed_logs, df, inserted, runs, completed >>

\* the values of one INSERT, in the order of insert_query's columns
RowValues(row) ==
    << row.ip, row.timestamp, row.method, row.url, row.status, row.size,
       row.query_parameters >>

\* the connection commits each statement as it is executed
Autocommit(rows, open, row) == [rows |-> Append(rows, row), open |-> << >>]

\* an executed INSERT stays in the connection's open transaction
Executed(rows, open, row) == [rows |-> rows, open |-> Append(open, row)]

\* lines 113-122: one turn of the insert loop
InsertRow ==
    /\ pc = "insert"
    /\ inserted < Len(df.rows)
    /\ steps' = Ran("insert")
    /\ \E ok \in BOOLEAN :
          IF ok
          THEN \E e \in {Executed(db.rows, pending, RowValues(df.rows[inserted + 1]))} :
                   /\ db' = [db EXCEPT !.rows = e.rows]
                   /\ pending' = e.open
                   /\ inserted' = inserted + 1
                   /\ UNCHANGED << pc, output >>
          ELSE /\ Uncaught("mysql.connector.Error", "insert")
               /\ UNCHANGED << db, inserted >>
    /\ UNCHANGED << file, lineNo, parsed_log, parsed_logs, df, runs, completed >>

\* line 124
Commit ==
    /\ pc = "insert"
    /\ inserted = Len(df.rows)
    /\ steps' = Ran("commit")
    /\ \E ok \in BOOLEAN :
          IF ok
          THEN /\ db' = [db EXCEPT !.rows = @ \o pending]
               /\ pending' = << >>
               /\ completed' = completed + 1
               /\ pc' = "charts"
               /\ UNCHANGED output
          ELSE /\ Uncaught("mysql.connector.Error", "commit")
               /\ UNCHANGED << db, completed >>
    /\ UNCHANGED << file, lineNo, parsed_log, parsed_logs, df, inserted, runs >>

(***************************************************************************)
(* The reporting stage                                                     *)
(***************************************************************************)
\* lines 129-194
RenderCharts ==
    /\ pc = "charts"
    /\ pc' = "report"
    /\ steps' = Ran("charts")
    /\ UNCHANGED << file, db, lineNo, parsed_log, parsed_logs, df, inserted, pending,
                    output, runs, completed >>

\* lines 198-214
WriteReport ==
    /\ pc = "report"
    /\ pc' = "charts_again"
    /\ steps' = Ran("report")
    /\ UNCHANGED << file, db, lineNo, parsed_log, parsed_logs, df, inserted, pending,
                    output, runs, completed >>

\* lines 217-274, then the end of the script
RenderChartsAgain ==
    /\ pc = "charts_again"
    /\ pc' = "done"
    /\ steps' = Ran("charts_again")
    /\ output' = [output EXCEPT !.ended = "normal"]
    /\ UNCHANGED << file, db, lineNo, parsed_log, parsed_logs, df, inserted, pending,
                    runs, completed >>

Ended == pc \in {"done", "crashed", "exited"}

\* the operator runs the script again, over the same file and the same server
NewRun ==
    /\ Ended
    /\ runs < MaxRuns
    /\ runs' = runs + 1
    /\ pc' = "read"
    /\ lineNo' = 1
    /\ parsed_log' = Unset
    /\ parsed_logs' = << >>
    /\ df' = NoFrame
    /\ inserted' = 0
    /\ pending' = << >>
    /\ output' = Running
    /\ steps' = [s \in Statements |-> 0]
    /\ UNCHANGED << file, db, completed >>

Next ==
    \/ ReadLine
    \/ ReturnLogs
    \/ BuildFrame
    \/ CoerceTimestamp
    \/ CoerceSize
    \/ SelectColumns
    \/ FillMissing
    \/ Connect
    \/ ShowDatabases
    \/ CreateDatabase
    \/ UseDatabase
    \/ ShowTables
    \/ CreateTable
    \/ InsertRow
    \/ Commit
    \/ RenderCharts
    \/ WriteReport
    \/ RenderChartsAgain
    \/ NewRun

Spec == Init /\ [][Next]_vars

\* read_log_file alone, over the one-line files
NextParse == ReadLine \/ ReturnLogs

SpecParse == InitParse /\ [][NextParse]_vars

(***************************************************************************)
(* The grammar of section 4.1, stated on the parts of a line, and what the *)
(* properties below need of a line and of a run.                           *)
(***************************************************************************)
AllIn(s, C) == \A k \in 1..Len(s) : s[k] \in C

DigitRun(s) == s # << >> /\ AllIn(s, Digits)

\* four runs of digits with a '.' between them
DottedQuad(s) ==
    \E i, j, k \in 1..Len(s) :
        /\ i < j /\ j < k
        /\ s[i] = "." /\ s[j] = "." /\ s[k] = "."
        /\ DigitRun(SubSeq(s, 1, i - 1))
        /\ DigitRun(SubSeq(s, i + 1, j - 1))
        /\ DigitRun(SubSeq(s, j + 1, k - 1))
        /\ DigitRun(SubSeq(s, k + 1, Len(s)))

ThreeDigits(s) == Len(s) = 3 /\ AllIn(s, Digits)

SizeText(s) == DigitRun(s) \/ s = <<"-">>

LineEnd(s) == s \in { << >>, <<"\n">> }

\* a literal token is missing, the status code is not three digits, the size is
\* neither a run of digits nor '-', or something other than the line terminator
\* follows the size
Deviates(p) ==
    \/ p.sep1 # <<" ", "-", " ", "-", " ", "[">>
    \/ p.sep2 # <<"]", " ", "\"">>
    \/ p.sep3 # <<" ", "H", "T", "T", "P", "/">>
    \/ p.sep4 # <<"\"", " ">>
    \/ ~ThreeDigits(p.status)
    \/ ~SizeText(p.size)
    \/ ~LineEnd(p.term)

\* the whole line is in the grammar
Conforms(p) ==
    /\ ~Deviates(p)
    /\ DottedQuad(p.ip) \/ p.ip = <<"N", "U", "L", "L">>
    /\ p.ts # << >> /\ AllIn(p.ts, Alphabet \ {"]"})
    /\ p.method # << >> /\ AllIn(p.method, WordChars)
    /\ p.sp1 = <<" ">>
    /\ p.url # << >> /\ AllIn(p.url, Alphabet \ {" ", "\t", "\n"})
    /\ p.ver # << >> /\ AllIn(p.ver, Alphabet \ {"\""})
    /\ p.sp2 = <<" ">>

\* the request target is in origin form ('/' first, not '//') and holds neither
\* '#' nor ';'
PlainTarget(u) ==
    /\ u # << >> /\ u[1] = "/"
    /\ ~(Len(u) >= 2 /\ u[2] = "/")
    /\ \A k \in 1..Len(u) : u[k] \notin {"#", ";"}

\* path and query are the target cut at its first '?'
CutAtFirstQuestionMark(u, path, query) ==
    IF \E k \in 1..Len(u) : u[k] = "?"
    THEN \E k \in 1..Len(u) :
            /\ u[k] = "?"
            /\ \A m \in 1..(k - 1) : u[m] # "?"
            /\ path = SubSeq(u, 1, k - 1)
            /\ query = SubSeq(u, k + 1, Len(u))
    ELSE path = u /\ query = << >>

\* the loop of read_log_file has dealt with the first line
FirstLineRead == Len(file) >= 1 /\ (lineNo > 1 \/ pc = "crashed")

\* the statements after the coercion of the row set
Downstream == SinkStatements \cup {"charts", "report", "charts_again"}

NothingDownstream == \A s \in Downstream : steps[s] = 0

\* the lines of the file the grammar accepts, in file order
Matching == SelectSeq(file, Conforms)

\* the number a size text stands for, for the sizes of LogLines
SizeOf(text) ==
    CASE text = <<"-">> -> 0
      [] text = <<"5", "1", "2">> -> 512

\* the row of the final row set that a line of LogLines stands for
RowOf(p) ==
    << p.ip, to_datetime(p.ts), p.method, <<"/", "a">>, p.status, Float(SizeOf(p.size)),
       <<"x", "=", "1">> >>

RECURSIVE Repeated(_, _)
Repeated(rows, k) == IF k = 0 THEN << >> ELSE rows \o Repeated(rows, k - 1)

(***************************************************************************)
(* Properties                                                              *)
(***************************************************************************)

\* C1: once read_log_file is over it has returned, and its list holds exactly
\* the lines of the file the grammar accepts, one record each, in file order.
C1_ReturnsMatchingLines ==
    pc # "read" =>
        /\ steps["return"] = 1
        /\ Len(parsed_logs) = Len(Matching)
        /\ \A i \in 1..Len(Matching) :
              /\ parsed_logs[i].ip = Matching[i].ip
              /\ parsed_logs[i].method = Matching[i].method
              /\ parsed_logs[i].status = Matching[i].status

\* C2 as stated: for every line the grammar accepts for which parse_log_line
\* returns, the record has the seven fields, url is the request target before
\* its first '?' and query_parameters is all that follows that '?', whatever
\* the target holds.
C2_SplitsAnyTarget ==
    (FirstLineRead /\ Conforms(file[1]) /\ pc # "crashed") =>
        /\ parsed_log.kind = "record"
        /\ DOMAIN parsed_log = Columns \cup {"kind"}
        /\ CutAtFirstQuestionMark(file[1].url, parsed_log.url, parsed_log.query_parameters)

\* C2 as amended: for every line the grammar accepts whose request target is in
\* origin form and holds neither '#' nor ';', parse_log_line returns a record
\* with the seven fields, url being the target before its first '?' and
\* query_parameters all that follows it (empty when there is no '?').
C2_SplitsPlainTarget ==
    (FirstLineRead /\ Conforms(file[1]) /\ PlainTarget(file[1].url)) =>
        /\ pc # "crashed"
        /\ parsed_log.kind = "record"
        /\ DOMAIN parsed_log = Columns \cup {"kind"}
        /\ \A c \in Columns : parsed_log[c] \in Seq(Alphabet)
        /\ CutAtFirstQuestionMark(file[1].url, parsed_log.url, parsed_log.query_parameters)

\* C2 witness: a target with two '?' has been cut at the first
C2_Witness ==
    /\ FirstLineRead
    /\ Conforms(file[1])
    /\ file[1].url = <<"/", "a", "?", "x", "?", "y">>
    /\ parsed_log.kind = "record"
    /\ parsed_log.url = <<"/", "a">>
    /\ parsed_log.query_parameters = <<"x", "?", "y">>

\* C3: parse_log_line returns a complete field set or None for every line; no
\* exception leaves it.
C3_RecordOrNone ==
    FirstLineRead =>
        /\ pc # "crashed"
        /\ \/ parsed_log = NoMatch
           \/ parsed_log.kind = "record" /\ DOMAIN parsed_log = Columns \cup {"kind"}

\* C4: a line that is not wholly in the grammar (a literal token missing, a
\* status code that is not three digits, a size that is neither digits nor '-',
\* anything but the line terminator after the size) yields None and adds
\* nothing to the list.
C4_RejectsOutsideGrammar ==
    (FirstLineRead /\ ~Conforms(file[1])) =>
        /\ pc # "crashed"
        /\ parsed_log = NoMatch
        /\ parsed_logs = << >>

\* C4 witness: a line with a four-digit status code has been read and rejected
C4_Witness ==
    /\ FirstLineRead
    /\ Deviates(file[1])
    /\ file[1].status = <<"2", "0", "0", "0">>
    /\ parsed_log = NoMatch
    /\ pc = "frame"

\* C5: in the final row set every size is a number, never the missing value:
\* 0 where the line had '-', the value of the digits otherwise.
C5_SizesAreNumbers ==
    steps["fillna"] = 1 =>
        /\ Len(df.rows) = Len(parsed_logs)
        /\ \A i \in 1..Len(df.rows) :
              /\ ~df.rows[i].size.nan
              /\ df.rows[i].size.val >= 0
              /\ df.rows[i].size.val = SizeOf(parsed_logs[i].size)

\* C5 witness: a row whose size text was '-' is in the final row set with size 0
C5_Witness ==
    /\ steps["fillna"] = 1
    /\ \E i \in 1..Len(df.rows) :
          parsed_logs[i].size = <<"-">> /\ df.rows[i].size = Float(0)

C7_ReadThenCoerceThenSink ==
    /\ (\E s \in Downstream : steps[s] > 0) =>
          /\ lineNo > Len(file)
          /\ steps["read_line"] = Len(file)
          /\ \A s \in {"return", "frame", "timestamp", "size", "columns", "fillna"} :
                steps[s] = 1
          /\ \A i \in 1..Len(df.rows) : ~df.rows[i].size.nan
    /\ \A s \in Statements \ {"read_line", "insert"} : steps[s] <= 1
    /\ steps["read_line"] <= Len(file)
    /\ steps["insert"] <= Len(df.rows)
    /\ steps["commit"] = 1 => steps["insert"] = Len(df.rows)

\* C7 witness: a run over two accepted lines has gone through every statement
C7_Witness ==
    /\ pc = "done"
    /\ steps["read_line"] = 2
    /\ steps["insert"] = 2
    /\ steps["create_database"] = 1
    /\ steps["create_table"] = 1

\* C8 as stated: every failed statement of the sink is reported by a printed
\* message and ends the process by an explicit exit with a non-zero status.
C8_EverySinkFailureExits ==
    output.failed # "" =>
        /\ output.ended = "exit"
        /\ output.status = 1
        /\ output.printed # << >>
        /\ Last(output.printed) \in {"Failed creating database", "Failed creating table"}

\* C8 as amended: every failed statement of the sink ends the process with a
\* non-zero status before any later statement runs; a failure creating the
\* database or the table is reported by a printed message and an explicit
\* exit, every other failure leaves as an uncaught exception.
C8_SinkFailureEndsRun ==
    output.failed # "" =>
        /\ pc \in {"crashed", "exited"}
        /\ output.status = 1
        /\ pending = << >>
        /\ steps[output.failed] >= 1
        /\ \A s \in {"charts", "report", "charts_again"} : steps[s] = 0
        /\ IF output.failed \in {"create_database", "create_table"}
           THEN /\ output.ended = "exit"
                /\ output.printed # << >>
                /\ Last(output.printed) \in
                      {"Failed creating database", "Failed creating table"}
           ELSE /\ output.ended = "exception"
                /\ \A k \in 1..Len(output.printed) :
                      output.printed[k] \notin
                         {"Failed creating database", "Failed creating table"}

\* C8 witness: the creation of the table failed and the process exited
C8_Witness ==
    /\ output.failed = "create_table"
    /\ output.ended = "exit"
    /\ pc = "exited"

\* C9: the table holds the rows it held before the first run, unchanged,
\* followed by the whole row set once per run that committed: a run adds all
\* its n rows, in row-set order, or none.  The database and the table are
\* created only when absent.
C9_AllRowsOrNone ==
    /\ db.rows = db.old \o Repeated([i \in 1..Len(Matching) |-> RowOf(Matching[i])], completed)
    /\ Len(db.rows) = Len(db.old) + completed * Len(Matching)
    /\ completed <= runs
    /\ Ended => pending = << >>
    /\ pc = "create_database" => ~db.exists
    /\ pc = "create_table" => ~db.table

\* C9 witness: two runs over two accepted lines have committed into a table
\* that held a row
C9_Witness ==
    /\ completed = 2
    /\ Len(Matching) = 2
    /\ db.old # << >>
    /\ Len(db.rows) = Len(db.old) + 4

\* C10: when no line of the file is accepted the run ends at the timestamp
\* coercion with a KeyError (the frame has no such column), and nothing
\* downstream runs; no run reaches the sink with an empty list.
C10_NoMatchEndsRun ==
    /\ (steps["timestamp"] = 1 /\ parsed_logs = << >>) =>
          /\ pc = "crashed"
          /\ output.error = "KeyError"
          /\ NothingDownstream
    /\ (\E s \in Downstream : steps[s] > 0) => parsed_logs # << >>

\* C10 witness: a file of two rejected lines ended the run with a KeyError
C10_Witness ==
    /\ Len(file) = 2
    /\ pc = "crashed"
    /\ output.error = "KeyError"
    /\ steps["timestamp"] = 1
    /\ parsed_logs = << >>

====
